---- MODULE Spec2Model ----
(***************************************************************************)
(* BLE attendance system: the ESP32 peripheral's volatile session and      *)
(* attendance store (esp32/src/main.cpp), the lecturer (organizer) client  *)
(* and its SQLite replica, and the student (participant) client and its    *)
(* replica.                                                                *)
(***************************************************************************)
EXTENDS Integers, Sequences, FiniteSets, Bags, TLC

VARIABLES
    sessions,           \* std::map<String, AttendanceSession> on the ESP32
    markedAttendances,  \* std::map<String, std::vector<AttendanceRecord>>; the code
                        \* reaches it only through operator[], push_back and erase, so
                        \* a missing key and an empty vector are the same value here
    millis,             \* the ESP32's millis() clock
    serial,             \* the last status line the ESP32 printed on Serial
    currentScreen,      \* App useState: the screen that is mounted
    email,              \* App useState: the account that is logged in
    toast,              \* the last message App.showToast displayed
    connectionState,    \* screen useState: the connection state machine
    device,             \* screen useState: the connected Device, or "null"
    linkUp,             \* the BLE link between the phone and the peripheral is alive
    permissionPending,  \* scanAndConnect calls awaiting requestBlePermissions()
    scanActive,         \* BleManager: a device scan with its listener is running
    activeTimer,        \* the scanTimeout of the call whose scan listener is the
                        \* current one is armed
    staleTimers,        \* armed scanTimeouts of calls whose listener was replaced
    connectPending,     \* connect().then(discover) chains not settled yet
    AttendanceSessions, \* lecturer SQLite table, keyed by sessionId (UNIQUE)
    AttendanceRecords,  \* lecturer SQLite table: a bag of rows (the row ids are
                        \* never read)
    attendanceSessions, \* lecturer useState: the displayed sessions
    freshFetch,         \* history: no mark was accepted and nothing was evicted
                        \* since the lecturer's last fetch from the peripheral
    StudentAttendances, \* student SQLite table, keyed by sessionId (UNIQUE)
    markedSessions,     \* student useState: in-memory marked sessions
    availableSessions,  \* student useState: markable sessions
    loadPending,        \* student: the mount effect's loadMarkedAttendances has
                        \* not resolved yet
    scanClosure,        \* student: the markedSessions that the running
                        \* scanAndConnect's retrieveAvailableSessions closed over
    readPending,        \* student: list-sessions reads in flight, each the
                        \* markedSessions its callback closed over
    readServed,         \* student: list-sessions responses the peripheral sent
                        \* whose then-callback has not run yet, each with the
                        \* markedSessions the callback closed over
    isFetchingSessions, \* student useState
    otpCache,           \* auth backend: the KV namespace, keys otp:<id>
    users,              \* auth backend: the rows of the users table
    serverNow,          \* auth backend: new Date(), in minutes
    request,            \* auth backend: the last request body received
    response,           \* auth backend: the last response sent
    dateNow,            \* the phone's Date.now(), in milliseconds
    written             \* the last timestamp field the phone serialised into a
                        \* request body

periphVars == <<sessions, markedAttendances, millis, serial>>
authVars == <<otpCache, users, serverNow, request, response>>
clockVars == <<dateNow, written>>
\* What no handler of the two dashboards touches: which screen App shows and
\* for which account, the auth backend, and the wall clock.
shellVars == <<currentScreen, email, authVars, clockVars>>
appVars == <<shellVars, toast>>
connVars == <<connectionState, device, linkUp, permissionPending, scanActive,
              activeTimer, staleTimers, connectPending>>
lecturerVars == <<AttendanceSessions, AttendanceRecords, attendanceSessions, freshFetch>>
readVars == <<readPending, readServed>>
studentVars == <<StudentAttendances, markedSessions, availableSessions,
                 loadPending, scanClosure, readVars, isFetchingSessions>>
clientVars == <<appVars, connVars, lecturerVars, studentVars>>
vars == <<periphVars, clientVars>>

(***************************************************************************)
(* Program constants and model bounds                                      *)
(***************************************************************************)
MAX_SESSIONS == 5

MaxMarks == 2       \* attendance records the peripheral holds in total
ClockMod == 3       \* millis() counts modulo this (2^32 on the device)
MaxRows == 3        \* rows the lecturer's AttendanceRecords table may hold
MaxReads == 1       \* list-sessions reads the student may have in flight
MaxMarked == 2      \* entries the student's in-memory marked list may hold
MaxCalls == 2       \* scanAndConnect calls, and scan timers, alive at once

MaxServerNow == 12  \* minutes of auth backend time that are followed

MaxDateNow == 40    \* milliseconds of wall-clock time that are followed

MaxPhoneClock == 2  \* milliseconds followed while the lecturer's replica is written

(***************************************************************************)
(* Finite functions as maps                                                *)
(***************************************************************************)
EmptyMap == [k \in {} |-> 0]

Put(m, k, v) == [x \in DOMAIN m \cup {k} |-> IF x = k THEN v ELSE m[x]]

\* std::map iterates in key order; IdOrder lists the ids used, in String order.
IdOrder == <<"s1", "s2", "s3", "s4", "s5", "s6">>

Ids == {IdOrder[i] : i \in DOMAIN IdOrder}

RECURSIVE SeqSum(_)
SeqSum(s) == IF s = <<>> THEN 0 ELSE Head(s) + SeqSum(Tail(s))

\* Number of attendance records held over all sessions.
TotalMarks(ma) == SeqSum([i \in DOMAIN IdOrder |-> Len(ma[IdOrder[i]])])

(***************************************************************************)
(* Wire codec: a written characteristic value either fails to parse as     *)
(* JSON or parses to a document, here a function from keys to values.      *)
(***************************************************************************)
Garbage == [parses |-> FALSE, doc |-> EmptyMap]

Json(d) == [parses |-> TRUE, doc |-> d]

\* doc[key].as<String>(): a missing key serializes as "null".
AsString(doc, key) == IF key \in DOMAIN doc THEN doc[key] ELSE "null"

\* doc[key].as<unsigned long>(): a missing key converts to 0.
AsULong(doc, key) == IF key \in DOMAIN doc THEN doc[key] ELSE 0

(***************************************************************************)
(* Peripheral store: pure effects of the four endpoint callbacks           *)
(***************************************************************************)
\* Seeded fault: the capacity test admits one session too many.
SessionsFullOffByOne(ss) == Cardinality(DOMAIN ss) > MAX_SESSIONS

SessionsFull(ss) == Cardinality(DOMAIN ss) >= MAX_SESSIONS

NewSession(doc) ==
    [courseCode      |-> AsString(doc, "courseCode"),
     courseName      |-> AsString(doc, "courseName"),
     expiryTimestamp |-> AsULong(doc, "expiryTimestamp")]

\* The sessions map after CreateAttendanceCallback::onWrite(value).
CreateSessions(ss, value) ==
    IF ~value.parses THEN ss
    ELSE IF SessionsFull(ss) THEN ss
    ELSE Put(ss, AsString(value.doc, "sessionId"), NewSession(value.doc))

\* The status line CreateAttendanceCallback::onWrite(value) prints.
CreateLog(ss, value) ==
    IF ~value.parses THEN "Failed to parse JSON"
    ELSE IF SessionsFull(ss) THEN "Maximum number of sessions reached"
    ELSE "New attendance session created successfully"

NewRecord(doc) ==
    [name         |-> AsString(doc, "name"),
     matricNumber |-> AsString(doc, "matricNumber"),
     timestamp    |-> AsULong(doc, "timestamp")]

SessionFound(ss, sessionId) == sessionId \in DOMAIN ss

\* Seeded fault: a mark at exactly the expiry is refused.
NotExpiredStrict(timestamp, session) == timestamp < session.expiryTimestamp

NotExpired(timestamp, session) == timestamp <= session.expiryTimestamp

\* Whether MarkAttendanceCallback::onWrite(value) reaches its push_back.
MarkAccepted(ss, value) ==
    /\ value.parses
    /\ SessionFound(ss, AsString(value.doc, "sessionId"))
    /\ NotExpired(AsULong(value.doc, "timestamp"),
                  ss[AsString(value.doc, "sessionId")])

\* Seeded fault: a participant already recorded in the session is skipped.
PushBackUnique(ma, sessionId, record) ==
    IF \E i \in DOMAIN ma[sessionId] : ma[sessionId][i].matricNumber = record.matricNumber
    THEN ma
    ELSE [ma EXCEPT ![sessionId] = Append(@, record)]

\* markedAttendances[sessionId].push_back(record)
PushBack(ma, sessionId, record) ==
    [ma EXCEPT ![sessionId] = Append(@, record)]

\* The markedAttendances map after MarkAttendanceCallback::onWrite(value).
MarkRecords(ss, ma, value) ==
    IF MarkAccepted(ss, value)
    THEN PushBack(ma, AsString(value.doc, "sessionId"), NewRecord(value.doc))
    ELSE ma

\* The status line MarkAttendanceCallback::onWrite(value) prints.
MarkLog(ss, value) ==
    IF ~value.parses THEN "Failed to parse JSON"
    ELSE IF ~SessionFound(ss, AsString(value.doc, "sessionId"))
    THEN "No active attendance session found for this ID"
    ELSE IF NotExpired(AsULong(value.doc, "timestamp"),
                       ss[AsString(value.doc, "sessionId")])
    THEN "Attendance marked successfully"
    ELSE "Attendance session has expired"

\* Seeded fault: a session expiring exactly now is kept.
ExpiredStrict(ss, currentTime) ==
    {id \in DOMAIN ss : ss[id].expiryTimestamp < currentTime}

\* Session ids removeExpiredSessions() erases at millis() = currentTime.
Expired(ss, currentTime) ==
    {id \in DOMAIN ss : ss[id].expiryTimestamp <= currentTime}

EvictSessions(ss, currentTime) ==
    [id \in DOMAIN ss \ Expired(ss, currentTime) |-> ss[id]]

EvictRecords(ss, ma, currentTime) ==
    [id \in DOMAIN ma |-> IF id \in Expired(ss, currentTime) THEN <<>> ELSE ma[id]]

\* Ids of the stored sessions in std::map iteration order.
SessionOrder(ss) == SelectSeq(IdOrder, LAMBDA id : id \in DOMAIN ss)

\* Seeded fault: the loop over the sessions stops one short.
SnapshotSessionsDropLast(ss) ==
    [i \in 1..(Len(SessionOrder(ss)) - 1) |->
        [sessionId       |-> SessionOrder(ss)[i],
         courseCode      |-> ss[SessionOrder(ss)[i]].courseCode,
         courseName      |-> ss[SessionOrder(ss)[i]].courseName,
         expiryTimestamp |-> ss[SessionOrder(ss)[i]].expiryTimestamp]]

\* The JSON array RetrieveSessionsCallback::onRead serializes.
SnapshotSessions(ss) ==
    [i \in DOMAIN SessionOrder(ss) |->
        [sessionId       |-> SessionOrder(ss)[i],
         courseCode      |-> ss[SessionOrder(ss)[i]].courseCode,
         courseName      |-> ss[SessionOrder(ss)[i]].courseName,
         expiryTimestamp |-> ss[SessionOrder(ss)[i]].expiryTimestamp]]

\* The JSON object RetrieveAttendancesCallback::onRead serializes.
SnapshotAttendances(ss, ma) ==
    [id \in DOMAIN ss |->
        [sessionId       |-> id,
         courseCode      |-> ss[id].courseCode,
         courseName      |-> ss[id].courseName,
         expiryTimestamp |-> ss[id].expiryTimestamp,
         attendances     |-> ma[id]]]

(***************************************************************************)
(* Characteristic values the environment may write                         *)
(***************************************************************************)
CreateDoc(id, code, name, expiry) ==
    Json([sessionId |-> id, courseCode |-> code, courseName |-> name,
          expiryTimestamp |-> expiry])

MarkDoc(id, name, matric, ts) ==
    Json([sessionId |-> id, name |-> name, matricNumber |-> matric,
          timestamp |-> ts])

\* Well-formed create-session requests: one per id, and a second one for s1.
WellFormedCreates ==
    {CreateDoc(id, "CSC101", "Intro", 2) : id \in Ids}
        \cup {CreateDoc("s1", "EEE202", "Circuits", 1)}

\* Requests that fail to parse, or parse but lack required fields.
MalformedCreates ==
    {Garbage,
     Json([sessionId |-> "s2", courseCode |-> "CSC101"])}

CreateValues == WellFormedCreates \cup MalformedCreates

WellFormedMarks == {MarkDoc("s1", "Ada", "EEG/2019/001", ts) : ts \in 1..3}

\* Requests that fail to parse, or parse but lack the required field "name".
MalformedMarks ==
    {Garbage,
     Json([sessionId |-> "s2", studentName |-> "Bob",
           matricNumber |-> "EEG/2019/002", timestamp |-> 1])}

MarkValues == WellFormedMarks \cup MalformedMarks

(***************************************************************************)
(* Peripheral actions                                                      *)
(***************************************************************************)
\* The globals as constructed at boot, main.cpp:38-39.
EmptyStore ==
    /\ sessions = EmptyMap
    /\ markedAttendances = [id \in Ids |-> <<>>]
    /\ millis = 0
    /\ serial = "BLE Attendance System is ready!"

CreateAttendanceCallback_onWrite(value) ==
    /\ sessions' = CreateSessions(sessions, value)
    /\ serial' = CreateLog(sessions, value)
    /\ UNCHANGED <<markedAttendances, millis>>

MarkAttendanceCallback_onWrite(value) ==
    /\ MarkAccepted(sessions, value) => TotalMarks(markedAttendances) < MaxMarks
    /\ markedAttendances' = MarkRecords(sessions, markedAttendances, value)
    /\ serial' = MarkLog(sessions, value)
    /\ UNCHANGED <<sessions, millis>>

\* Both reads serialize a snapshot into the characteristic value, which the
\* next read overwrites before anything can observe it: the value is no state.
RetrieveSessionsCallback_onRead ==
    /\ serial' = "Retrieved sessions:"
    /\ UNCHANGED <<sessions, markedAttendances, millis>>

\* Seeded fault: list-attendances hands the records over and forgets them.
RetrieveAttendancesCallback_onReadDraining ==
    /\ serial' = "Retrieved attendances:"
    /\ markedAttendances' = [id \in Ids |-> <<>>]
    /\ UNCHANGED <<sessions, millis>>

RetrieveAttendancesCallback_onRead ==
    /\ serial' = "Retrieved attendances:"
    /\ UNCHANGED <<sessions, markedAttendances, millis>>

removeExpiredSessions ==
    /\ sessions' = EvictSessions(sessions, millis)
    /\ markedAttendances' = EvictRecords(sessions, markedAttendances, millis)
    /\ serial' = "Remaining active sessions: "
    /\ UNCHANGED millis

\* loop(): delay(2000), one tick of the clock; the call of
\* removeExpiredSessions() is commented out.
loop ==
    /\ millis' = (millis + 1) % ClockMod
    /\ UNCHANGED <<sessions, markedAttendances, serial>>

\* Power cycle: the volatile store restarts empty.
PowerCycle ==
    /\ sessions' = EmptyMap
    /\ markedAttendances' = [id \in Ids |-> <<>>]
    /\ millis' = 0
    /\ serial' = "BLE Attendance System is ready!"

(***************************************************************************)
(* Connection state machine of the mounted screen (both screens carry the  *)
(* same scanAndConnect; where they differ the screen is tested)            *)
(***************************************************************************)
DEVICE_NAME == "ESP32-Attendance"

IsStudent == currentScreen = "studentDashboard"

IsLecturer == currentScreen = "lecturerDashboard"

\* What no connection step touches.
connFrame == <<periphVars, shellVars, lecturerVars, StudentAttendances,
               markedSessions, loadPending>>

\* resetConnection(): setConnectionState('disconnected'), setDevice(null)
\* (whose effect cleanup cancels the connection), stopDeviceScan(), and on
\* the student screen setAvailableSessions([]).
ResetConnectionState ==
    /\ connectionState' = "disconnected"
    /\ device' = "null"
    /\ linkUp' = FALSE
    /\ scanActive' = FALSE
    /\ availableSessions' = IF IsStudent THEN <<>> ELSE availableSessions

\* scanAndConnect up to the await of requestBlePermissions(); the student's
\* retrieveAvailableSessions is the one of the render the tap happened in.
scanAndConnect ==
    IF connectionState # "disconnected"
    THEN UNCHANGED vars
    ELSE /\ permissionPending < MaxCalls
         /\ permissionPending' = permissionPending + 1
         /\ scanClosure' = IF IsStudent THEN markedSessions ELSE scanClosure
         /\ UNCHANGED <<connectionState, device, linkUp, scanActive, activeTimer,
                        staleTimers, connectPending, toast, availableSessions,
                        readVars, isFetchingSessions>>
         /\ UNCHANGED connFrame

\* requestBlePermissions() resolves true: setConnectionState('scanning'), the
\* scan timeout is armed and startDeviceScan replaces any earlier listener.
PermissionsGranted ==
    /\ permissionPending > 0
    /\ staleTimers + (IF activeTimer THEN 1 ELSE 0) < MaxCalls
    /\ permissionPending' = permissionPending - 1
    /\ connectionState' = "scanning"
    /\ staleTimers' = IF activeTimer THEN staleTimers + 1 ELSE staleTimers
    /\ activeTimer' = TRUE
    /\ scanActive' = TRUE
    /\ UNCHANGED <<device, linkUp, connectPending, toast, availableSessions,
                   scanClosure, readVars, isFetchingSessions>>
    /\ UNCHANGED connFrame

\* requestBlePermissions() resolves false.
PermissionsDenied ==
    /\ permissionPending > 0
    /\ permissionPending' = permissionPending - 1
    /\ toast' = "Bluetooth permissions not granted"
    /\ UNCHANGED <<connectionState, device, linkUp, scanActive, activeTimer,
                   staleTimers, connectPending, availableSessions, scanClosure,
                   readVars, isFetchingSessions>>
    /\ UNCHANGED connFrame

\* The scan listener reports the target device: stopDeviceScan(),
\* clearTimeout(scanTimeout), setConnectionState('connecting'), connect().
ScanFound ==
    /\ scanActive
    /\ connectPending < MaxCalls
    /\ scanActive' = FALSE
    /\ activeTimer' = FALSE
    /\ connectionState' = "connecting"
    /\ connectPending' = connectPending + 1
    /\ UNCHANGED <<device, linkUp, permissionPending, staleTimers, toast,
                   availableSessions, scanClosure, readVars, isFetchingSessions>>
    /\ UNCHANGED connFrame

\* The scan listener reports an error: clearTimeout, resetConnection(), toast.
ScanError ==
    /\ scanActive
    /\ activeTimer' = FALSE
    /\ ResetConnectionState
    /\ toast' = "Failed to scan for devices"
    /\ UNCHANGED <<permissionPending, staleTimers, connectPending, scanClosure,
                   readVars, isFetchingSessions>>
    /\ UNCHANGED connFrame

\* The timer callback without its resetConnection() call.
ScanTimeoutToastOnly ==
    /\ \/ /\ activeTimer
          /\ activeTimer' = FALSE
          /\ UNCHANGED staleTimers
       \/ /\ staleTimers > 0
          /\ staleTimers' = staleTimers - 1
          /\ UNCHANGED activeTimer
    /\ toast' = "Scan timed out. No device found."
    /\ UNCHANGED <<connectionState, device, linkUp, scanActive, availableSessions>>
    /\ UNCHANGED <<permissionPending, connectPending, scanClosure, readVars,
                   isFetchingSessions>>
    /\ UNCHANGED connFrame

\* An armed scanTimeout fires: resetConnection(), toast.
ScanTimeout ==
    /\ \/ /\ activeTimer
          /\ activeTimer' = FALSE
          /\ UNCHANGED staleTimers
       \/ /\ staleTimers > 0
          /\ staleTimers' = staleTimers - 1
          /\ UNCHANGED activeTimer
    /\ ResetConnectionState
    /\ toast' = "Scan timed out. No device found."
    /\ UNCHANGED <<permissionPending, connectPending, scanClosure, readVars,
                   isFetchingSessions>>
    /\ UNCHANGED connFrame

\* connect() and discoverAllServicesAndCharacteristics() resolve:
\* setDevice(discoveredDevice), whose effect cleanup calls stopDeviceScan() and
\* cancels the connection of the Device held before; setConnectionState(
\* 'connected'); toast; the student screen starts retrieveAvailableSessions.
ConnectResolved ==
    /\ connectPending > 0
    /\ connectPending' = connectPending - 1
    /\ device' = DEVICE_NAME
    /\ linkUp' = (device = "null")
    /\ connectionState' = "connected"
    /\ scanActive' = FALSE
    /\ toast' = "Connected to ESP32-Attendance"
    /\ IF IsStudent
       THEN /\ Cardinality(readPending \cup {scanClosure}) <= MaxReads
            /\ isFetchingSessions' = TRUE
            /\ readPending' = readPending \cup {scanClosure}
            /\ UNCHANGED readServed
       ELSE UNCHANGED <<isFetchingSessions, readVars>>
    /\ UNCHANGED <<permissionPending, activeTimer, staleTimers, availableSessions,
                   scanClosure>>
    /\ UNCHANGED connFrame

\* The connect catch without its resetConnection() call.
ConnectRejectedToastOnly ==
    /\ connectPending > 0
    /\ connectPending' = connectPending - 1
    /\ toast' = "Failed to connect to ESP32-Attendance"
    /\ UNCHANGED <<connectionState, device, linkUp, scanActive, availableSessions>>
    /\ UNCHANGED <<permissionPending, activeTimer, staleTimers, scanClosure,
                   readVars, isFetchingSessions>>
    /\ UNCHANGED connFrame

\* connect() or discovery rejects: resetConnection(), toast.
ConnectRejected ==
    /\ connectPending > 0
    /\ connectPending' = connectPending - 1
    /\ ResetConnectionState
    /\ toast' = "Failed to connect to ESP32-Attendance"
    /\ UNCHANGED <<permissionPending, activeTimer, staleTimers, scanClosure,
                   readVars, isFetchingSessions>>
    /\ UNCHANGED connFrame

\* The Disconnect button (shown and enabled while connected): resetConnection().
resetConnection ==
    /\ connectionState = "connected"
    /\ ResetConnectionState
    /\ UNCHANGED <<permissionPending, activeTimer, staleTimers, connectPending,
                   toast, scanClosure, readVars, isFetchingSessions>>
    /\ UNCHANGED connFrame

\* The link drops: out of range, or the peripheral hung up.
LinkLost ==
    /\ linkUp
    /\ linkUp' = FALSE
    /\ UNCHANGED <<connectionState, device, permissionPending, scanActive,
                   activeTimer, staleTimers, connectPending, toast,
                   availableSessions, scanClosure, readVars, isFetchingSessions>>
    /\ UNCHANGED connFrame

\* The lecturer screen's device.onDisconnected subscription is called:
\* setConnectionState("disconnected"), setDevice(null) with its effect
\* cleanup, toast. The student screen subscribes to nothing.
onDisconnected ==
    /\ IsLecturer
    /\ device # "null"
    /\ ~linkUp
    /\ connectionState' = "disconnected"
    /\ device' = "null"
    /\ scanActive' = FALSE
    /\ toast' = "Device disconnected"
    /\ UNCHANGED <<linkUp, permissionPending, activeTimer, staleTimers,
                   connectPending, availableSessions, scanClosure, readVars,
                   isFetchingSessions>>
    /\ UNCHANGED connFrame

\* A power cycle of the peripheral, which drops a live link.
ClientPowerCycle ==
    /\ PowerCycle
    /\ linkUp' = FALSE
    /\ UNCHANGED <<connectionState, device, permissionPending, scanActive,
                   activeTimer, staleTimers, connectPending>>
    /\ UNCHANGED appVars

(***************************************************************************)
(* Lecturer (organizer) client and its replica                             *)
(***************************************************************************)
LecturerEmail == "lecturer@oauife.edu.ng"

\* INSERT OR REPLACE INTO AttendanceSessions: sessionId is UNIQUE, and the
\* row written carries createdAt = Date.now().
UpsertHeader(table, sessionData) ==
    Put(table, sessionData.sessionId,
        [lecturerEmail |-> sessionData.lecturerEmail,
         courseCode    |-> sessionData.courseCode,
         courseName    |-> sessionData.courseName,
         createdAt     |-> dateNow])

RecordRow(sessionId, record) ==
    [sessionId    |-> sessionId,
     studentName  |-> record.studentName,
     matricNumber |-> record.matricNumber,
     timestamp    |-> record.timestamp]

\* INSERT INTO AttendanceRecords, once per record of sessionData.
RECURSIVE InsertRecords(_, _, _)
InsertRecords(rows, sessionId, records) ==
    IF records = <<>> THEN rows
    ELSE InsertRecords(rows (+) SetToBag({RecordRow(sessionId, Head(records))}),
                       sessionId, Tail(records))

\* updatedRecords of retrieveAttendances: the device's attendances renamed.
UpdatedRecords(attendances) ==
    [i \in DOMAIN attendances |->
        [studentName  |-> attendances[i].name,
         matricNumber |-> attendances[i].matricNumber,
         timestamp    |-> attendances[i].timestamp]]

\* The sessionData retrieveAttendances passes to saveAttendanceSession.
FetchedSessionData(sessionId, deviceData) ==
    [sessionId     |-> sessionId,
     lecturerEmail |-> LecturerEmail,
     courseCode    |-> deviceData[sessionId].courseCode,
     courseName    |-> deviceData[sessionId].courseName,
     records       |-> UpdatedRecords(deviceData[sessionId].attendances)]

\* Both tables after saveAttendanceSession(sessionData).
saveAttendanceSession(tables, sessionData) ==
    [headers |-> UpsertHeader(tables.headers, sessionData),
     rows    |-> InsertRecords(tables.rows, sessionData.sessionId,
                               sessionData.records)]

\* Both tables after retrieveAttendances saved every entry of deviceData,
\* ids being the entries still to save.
RECURSIVE SaveAll(_, _, _)
SaveAll(tables, deviceData, ids) ==
    IF ids = <<>> THEN tables
    ELSE SaveAll(saveAttendanceSession(tables,
                                       FetchedSessionData(Head(ids), deviceData)),
                 deviceData, Tail(ids))

\* Both tables after a connected retrieveAttendances read deviceData.
Reconcile(tables, deviceData) ==
    SaveAll(tables, deviceData,
            SelectSeq(IdOrder, LAMBDA id : id \in DOMAIN deviceData))

Tables == [headers |-> AttendanceSessions, rows |-> AttendanceRecords]

\* create-session requests the lecturer's form can produce.
LecturerCreates == {CreateDoc(id, "CSC101", "Intro", 2) : id \in {"s1", "s2"}}

\* device && connectionState === "connected"
lecturerConnected == device # "null" /\ connectionState = "connected"

\* The AttendanceRecords rows of one session.
RowsOf(rows, sessionId) ==
    [row \in {r \in DOMAIN rows : r.sessionId = sessionId} |-> rows[row]]

\* fetchAttendanceSessions: the lecturer's headers LEFT JOINed with their
\* records and grouped by session (records as a bag, their order dropped).
fetchAttendanceSessions(tables, lecturerEmail) ==
    LET own == SelectSeq(IdOrder,
                   LAMBDA id : /\ id \in DOMAIN tables.headers
                               /\ tables.headers[id].lecturerEmail = lecturerEmail)
    IN [i \in DOMAIN own |->
            [sessionId  |-> own[i],
             courseCode |-> tables.headers[own[i]].courseCode,
             courseName |-> tables.headers[own[i]].courseName,
             records    |-> RowsOf(tables.rows, own[i])]]

\* updatedSessions of retrieveAttendances: one entry per session of deviceData.
UpdatedSessions(deviceData) ==
    LET ids == SelectSeq(IdOrder, LAMBDA id : id \in DOMAIN deviceData)
    IN [i \in DOMAIN ids |->
            [sessionId  |-> ids[i],
             courseCode |-> deviceData[ids[i]].courseCode,
             courseName |-> deviceData[ids[i]].courseName,
             records    |-> InsertRecords(EmptyBag, ids[i],
                                UpdatedRecords(deviceData[ids[i]].attendances))]]

\* Seeded fault: the displayed list is the device's sessions alone.
MergedSessionsDeviceOnly(updatedSessions, localSessions) ==
    updatedSessions

\* mergedSessions: the updated sessions, then the local ones not among them.
MergedSessions(updatedSessions, localSessions) ==
    updatedSessions \o
        SelectSeq(localSessions,
                  LAMBDA local : \A i \in DOMAIN updatedSessions :
                                     updatedSessions[i].sessionId # local.sessionId)

\* retrieveAttendances started with the tables as given: the local fetch, then
\* (connected, and the read resolves) the save of every device session and the
\* merged list, or else the local list; the toast is the same in all cases.
RetrieveInto(tables) ==
    LET localSessions == fetchAttendanceSessions(tables, LecturerEmail)
        deviceData == SnapshotAttendances(sessions', markedAttendances)
        saved == Reconcile(tables, deviceData)
    IN /\ IF lecturerConnected /\ linkUp
          THEN /\ BagCardinality(saved.rows) <= MaxRows
               /\ AttendanceSessions' = saved.headers
               /\ AttendanceRecords' = saved.rows
               /\ attendanceSessions' =
                     MergedSessions(UpdatedSessions(deviceData), localSessions)
               /\ freshFetch' = TRUE
          ELSE /\ AttendanceSessions' = tables.headers
               /\ AttendanceRecords' = tables.rows
               /\ attendanceSessions' = localSessions
               /\ UNCHANGED freshFetch
       /\ toast' = "Attendances retrieved successfully"

\* The Refresh button of the lecturer screen.
retrieveAttendances ==
    /\ IF lecturerConnected /\ linkUp
       THEN RetrieveAttendancesCallback_onRead
       ELSE UNCHANGED periphVars
    /\ RetrieveInto(Tables)
    /\ UNCHANGED <<connVars, shellVars>>

\* The sessionData createAttendanceSession saves before the first fetch.
CreatedSessionData(value) ==
    [sessionId     |-> value.doc.sessionId,
     lecturerEmail |-> LecturerEmail,
     courseCode    |-> value.doc.courseCode,
     courseName    |-> value.doc.courseName,
     records       |-> <<>>]

\* The Create Session button: the write; once it resolved, the save with no
\* records and retrieveAttendances(); a toast when it rejected.
createAttendanceSession(value) ==
    /\ IF ~lecturerConnected
       THEN /\ toast' = "Device not connected"
            /\ UNCHANGED <<periphVars, lecturerVars>>
       ELSE IF ~linkUp
       THEN /\ toast' = "Failed to create attendance session"
            /\ UNCHANGED <<periphVars, lecturerVars>>
       ELSE /\ sessions' = CreateSessions(sessions, value)
            /\ serial' = "Retrieved attendances:"
            /\ UNCHANGED <<markedAttendances, millis>>
            /\ RetrieveInto(saveAttendanceSession(Tables, CreatedSessionData(value)))
    /\ UNCHANGED <<connVars, shellVars>>

\* A student's mark reaching the peripheral while the lecturer is around.
StudentMarks(value) ==
    /\ MarkAttendanceCallback_onWrite(value)
    /\ freshFetch' = (freshFetch /\ ~MarkAccepted(sessions, value))
    /\ UNCHANGED <<AttendanceSessions, AttendanceRecords, attendanceSessions>>
    /\ UNCHANGED <<connVars, appVars>>

\* Seeded fault: a failed save undoes the statements it had executed.
saveAttendanceSessionFailingAtRolledBack(tables, sessionData, k) == tables

\* Both tables after saveAttendanceSession(sessionData) whose k-th record
\* INSERT throws: the header statement and the first k-1 record statements
\* have run (each executeAsync is its own statement, there is no
\* transaction), the catch shows a toast and returns.
saveAttendanceSessionFailingAt(tables, sessionData, k) ==
    [headers |-> UpsertHeader(tables.headers, sessionData),
     rows    |-> InsertRecords(tables.rows, sessionData.sessionId,
                               SubSeq(sessionData.records, 1, k - 1))]

\* Both tables after retrieveAttendances saved every entry of deviceData, the
\* save of session failing at its k-th record.
RECURSIVE SaveAllFailingAt(_, _, _, _, _)
SaveAllFailingAt(tables, deviceData, ids, failing, k) ==
    IF ids = <<>> THEN tables
    ELSE SaveAllFailingAt(
             IF Head(ids) = failing
             THEN saveAttendanceSessionFailingAt(
                      tables, FetchedSessionData(Head(ids), deviceData), k)
             ELSE saveAttendanceSession(
                      tables, FetchedSessionData(Head(ids), deviceData)),
             deviceData, Tail(ids), failing, k)

\* The Refresh button, connected, when the INSERT of the k-th record of one
\* fetched session throws: the other sessions are saved, the list shown is
\* the merged one, and the last toast is the one retrieveAttendances ends with.
retrieveAttendancesSaveFails(failing, k) ==
    LET localSessions == fetchAttendanceSessions(Tables, LecturerEmail)
        deviceData == SnapshotAttendances(sessions, markedAttendances)
        saved == SaveAllFailingAt(Tables, deviceData,
                     SelectSeq(IdOrder, LAMBDA id : id \in DOMAIN deviceData),
                     failing, k)
    IN /\ lecturerConnected
       /\ linkUp
       /\ failing \in DOMAIN deviceData
       /\ k \in 1..Len(deviceData[failing].attendances)
       /\ BagCardinality(saved.rows) <= MaxRows
       /\ RetrieveAttendancesCallback_onRead
       /\ AttendanceSessions' = saved.headers
       /\ AttendanceRecords' = saved.rows
       /\ attendanceSessions' =
             MergedSessions(UpdatedSessions(deviceData), localSessions)
       /\ freshFetch' = FALSE
       /\ toast' = "Attendances retrieved successfully"
       /\ UNCHANGED <<connVars, shellVars>>

\* Marks reaching the peripheral while the lecturer is around: one accepted
\* when s1 is stored, and the one the student client sends for s2.
LecturerSeenMarks == {MarkDoc("s1", "Ada", "EEG/2019/001", 1)} \cup MalformedMarks

\* loop() and removeExpiredSessions() while the lecturer is around.
LecturerTick ==
    /\ loop
    /\ UNCHANGED clientVars

LecturerEviction ==
    /\ removeExpiredSessions
    /\ freshFetch' = FALSE
    /\ UNCHANGED <<AttendanceSessions, AttendanceRecords, attendanceSessions>>
    /\ UNCHANGED <<connVars, appVars>>

\* A power cycle while the lecturer is around.
LecturerPowerCycle ==
    /\ ClientPowerCycle
    /\ freshFetch' = FALSE
    /\ UNCHANGED <<AttendanceSessions, AttendanceRecords, attendanceSessions>>

(***************************************************************************)
(* Student (participant) client and its replica                            *)
(***************************************************************************)
StudentEmail == "ada@student.oauife.edu.ng"

StudentName == "Ada Obi"

MatricNumber == "EEG/2019/001"

\* Values of now() at which the student marks.
MarkTimes == {1, 3}

\* create-session requests reaching the peripheral while the student is around.
OtherCreates == {CreateDoc(id, "CSC101", "Intro", 2) : id \in {"s1", "s2"}}

\* The session ids of a list of sessions.
SessionIdsOf(list) == {list[i].sessionId : i \in DOMAIN list}

\* Rows of the table for this account, ids being the ids still to visit,
\* ORDER BY timestamp DESC (equal timestamps in id order).
RECURSIVE RowsByTimestampDesc(_, _)
RowsByTimestampDesc(table, ids) ==
    IF ids = {} THEN <<>>
    ELSE LET latest == CHOOSE id \in ids :
                 \A other \in ids :
                     \/ table[id].timestamp > table[other].timestamp
                     \/ /\ table[id].timestamp = table[other].timestamp
                        /\ \E i, j \in DOMAIN IdOrder :
                              /\ IdOrder[i] = id
                              /\ IdOrder[j] = other
                              /\ i <= j
         IN <<[sessionId       |-> latest,
               courseCode      |-> table[latest].courseCode,
               courseName      |-> table[latest].courseName,
               expiryTimestamp |-> table[latest].expiryTimestamp,
               timestamp       |-> table[latest].timestamp]>>
                \o RowsByTimestampDesc(table, ids \ {latest})

\* SELECT * FROM StudentAttendances WHERE studentEmail = ? ORDER BY timestamp DESC
fetchStudentAttendances(table, studentEmail) ==
    RowsByTimestampDesc(table,
                        {id \in DOMAIN table : table[id].studentEmail = studentEmail})

\* INSERT OR REPLACE INTO StudentAttendances: sessionId is UNIQUE.
saveStudentAttendance(table, studentEmail, attendanceData) ==
    Put(table, attendanceData.sessionId,
        [studentEmail    |-> studentEmail,
         courseCode      |-> attendanceData.courseCode,
         courseName      |-> attendanceData.courseName,
         expiryTimestamp |-> attendanceData.expiryTimestamp,
         timestamp       |-> attendanceData.timestamp])

\* sessions.filter(session => !markedSessions.some(marked => same sessionId))
FilteredSessions(deviceSessions, marked) ==
    SelectSeq(deviceSessions, LAMBDA session : session.sessionId \notin SessionIdsOf(marked))

\* The JSON markAttendance writes: the key is studentName, not name.
StudentMarkValue(session, timestamp) ==
    Json([sessionId    |-> session.sessionId,
          studentName  |-> StudentName,
          matricNumber |-> MatricNumber,
          timestamp    |-> timestamp])

MarkedAttendanceOf(session, timestamp) ==
    [sessionId       |-> session.sessionId,
     courseCode      |-> session.courseCode,
     courseName      |-> session.courseName,
     expiryTimestamp |-> session.expiryTimestamp,
     timestamp       |-> timestamp]

\* The app process starts (again): timers and promises of the old process are
\* gone, the screen mounts with fresh useState values, and the mount effect
\* calls loadMarkedAttendances.
StudentMount ==
    /\ markedSessions' = <<>>
    /\ availableSessions' = <<>>
    /\ connectionState' = "disconnected"
    /\ device' = "null"
    /\ linkUp' = FALSE
    /\ permissionPending' = 0
    /\ scanActive' = FALSE
    /\ activeTimer' = FALSE
    /\ staleTimers' = 0
    /\ connectPending' = 0
    /\ toast' = "none"
    /\ loadPending' = TRUE
    /\ scanClosure' = <<>>
    /\ readPending' = {}
    /\ readServed' = {}
    /\ isFetchingSessions' = FALSE
    /\ UNCHANGED <<StudentAttendances, shellVars, lecturerVars, periphVars>>

\* loadMarkedAttendances: the awaited fetchStudentAttendances resolves.
loadMarkedAttendances ==
    /\ loadPending
    /\ loadPending' = FALSE
    /\ markedSessions' = fetchStudentAttendances(StudentAttendances, email)
    /\ UNCHANGED <<StudentAttendances, availableSessions, scanClosure, readVars,
                   isFetchingSessions>>
    /\ UNCHANGED <<periphVars, appVars, connVars, lecturerVars>>

\* The Refresh button: retrieveAvailableSessions(device) of the current render.
Refresh ==
    /\ device # "null"
    /\ connectionState = "connected"
    /\ ~isFetchingSessions
    /\ Cardinality(readPending \cup {markedSessions}) <= MaxReads
    /\ isFetchingSessions' = TRUE
    /\ readPending' = readPending \cup {markedSessions}
    /\ UNCHANGED readServed
    /\ UNCHANGED <<StudentAttendances, markedSessions, availableSessions,
                   loadPending, scanClosure>>
    /\ UNCHANGED <<periphVars, appVars, connVars, lecturerVars>>

\* retrieveAvailableSessions: the read is served and its then-callback runs
\* with the markedSessions it closed over.
ReadResolved(closure) ==
    /\ closure \in readPending
    /\ linkUp
    /\ RetrieveSessionsCallback_onRead
    /\ availableSessions' = FilteredSessions(SnapshotSessions(sessions), closure)
    /\ toast' = "Available sessions retrieved successfully"
    /\ readPending' = readPending \ {closure}
    /\ UNCHANGED readServed
    /\ isFetchingSessions' = FALSE
    /\ UNCHANGED <<StudentAttendances, markedSessions, loadPending, scanClosure>>
    /\ UNCHANGED <<shellVars, connVars, lecturerVars>>

\* retrieveAvailableSessions: the read rejects because the link is gone; the
\* catch shows a toast and the finally clears the flag.
ReadRejected(closure) ==
    /\ closure \in readPending
    /\ ~linkUp
    /\ toast' = "Failed to retrieve available sessions"
    /\ readPending' = readPending \ {closure}
    /\ UNCHANGED readServed
    /\ isFetchingSessions' = FALSE
    /\ UNCHANGED <<StudentAttendances, markedSessions, availableSessions,
                   loadPending, scanClosure>>
    /\ UNCHANGED <<periphVars, shellVars, connVars, lecturerVars>>

\* retrieveAvailableSessions: the peripheral serves the read; the response is
\* on its way to the JavaScript thread.
ReadServed(closure) ==
    /\ closure \in readPending
    /\ linkUp
    /\ Cardinality(readServed) < MaxReads
    /\ RetrieveSessionsCallback_onRead
    /\ readPending' = readPending \ {closure}
    /\ readServed' = readServed \cup
                        {[closure |-> closure, sessions |-> SnapshotSessions(sessions)]}
    /\ UNCHANGED <<StudentAttendances, markedSessions, availableSessions,
                   loadPending, scanClosure, isFetchingSessions, toast>>
    /\ UNCHANGED <<shellVars, connVars, lecturerVars>>

\* retrieveAvailableSessions: the then-callback of a served read runs,
\* whatever the connection state is by now, with the markedSessions it
\* closed over.
ReadDelivered(served) ==
    /\ served \in readServed
    /\ availableSessions' = FilteredSessions(served.sessions, served.closure)
    /\ toast' = "Available sessions retrieved successfully"
    /\ readServed' = readServed \ {served}
    /\ isFetchingSessions' = FALSE
    /\ UNCHANGED <<StudentAttendances, markedSessions, loadPending, scanClosure,
                   readPending>>
    /\ UNCHANGED <<periphVars, shellVars, connVars, lecturerVars>>

\* Seeded fault: the local effect is applied only when the peripheral
\* recorded the mark.
AppliedOnlyIfRecorded(session, timestamp) ==
    IF MarkAccepted(sessions, StudentMarkValue(session, timestamp))
    THEN /\ StudentAttendances' =
               saveStudentAttendance(StudentAttendances, email,
                                     MarkedAttendanceOf(session, timestamp))
         /\ markedSessions' =
               Append(markedSessions, MarkedAttendanceOf(session, timestamp))
         /\ availableSessions' =
               SelectSeq(availableSessions,
                         LAMBDA s : s.sessionId # session.sessionId)
    ELSE UNCHANGED <<StudentAttendances, markedSessions, availableSessions>>

\* What markAttendance applies once the write resolved: the replica row, the
\* in-memory marked list and the markable list.
AppliedLocally(session, timestamp) ==
    /\ StudentAttendances' =
          saveStudentAttendance(StudentAttendances, email,
                                MarkedAttendanceOf(session, timestamp))
    /\ markedSessions' =
          Append(markedSessions, MarkedAttendanceOf(session, timestamp))
    /\ availableSessions' =
          SelectSeq(availableSessions, LAMBDA s : s.sessionId # session.sessionId)

\* Seeded fault: the catch applies the local effect all the same.
markAttendanceCatchApplying(session, timestamp) ==
    /\ AppliedLocally(session, timestamp)
    /\ toast' = "Failed to mark attendance"
    /\ UNCHANGED periphVars

\* markAttendance: the write rejects and the catch runs.
markAttendanceCatch(session, timestamp) ==
    /\ UNCHANGED <<StudentAttendances, markedSessions, availableSessions>>
    /\ toast' = "Failed to mark attendance"
    /\ UNCHANGED periphVars

\* Seeded fault: markAttendance without its connection guard.
markAttendanceUnguarded(session, timestamp) ==
    /\ IF linkUp
       THEN /\ Len(markedSessions) < MaxMarked
            /\ MarkAttendanceCallback_onWrite(StudentMarkValue(session, timestamp))
            /\ AppliedLocally(session, timestamp)
            /\ toast' = "Attendance marked successfully"
       ELSE markAttendanceCatch(session, timestamp)
    /\ UNCHANGED <<loadPending, scanClosure, readVars, isFetchingSessions>>
    /\ UNCHANGED <<shellVars, connVars, lecturerVars>>

\* markAttendance(session) from a Mark Attendance button, at now() = timestamp.
markAttendance(session, timestamp) ==
    /\ IF device = "null" \/ connectionState # "connected"
       THEN /\ toast' = "Device not connected"
            /\ UNCHANGED <<StudentAttendances, markedSessions, availableSessions>>
            /\ UNCHANGED periphVars
       ELSE IF linkUp
       THEN /\ Len(markedSessions) < MaxMarked
            /\ MarkAttendanceCallback_onWrite(StudentMarkValue(session, timestamp))
            /\ AppliedLocally(session, timestamp)
            /\ toast' = "Attendance marked successfully"
       ELSE markAttendanceCatch(session, timestamp)
    /\ UNCHANGED <<loadPending, scanClosure, readVars, isFetchingSessions>>
    /\ UNCHANGED <<shellVars, connVars, lecturerVars>>

\* markAttendance when the write resolved and the INSERT of
\* saveStudentAttendance fails: its catch shows a toast and returns, and
\* markAttendance goes on in the same turn of the event loop with the two
\* list updates and its own toast, which is the one left on screen.
markAttendanceSaveFails(session, timestamp) ==
    /\ device # "null"
    /\ connectionState = "connected"
    /\ linkUp
    /\ Len(markedSessions) < MaxMarked
    /\ MarkAttendanceCallback_onWrite(StudentMarkValue(session, timestamp))
    /\ UNCHANGED StudentAttendances
    /\ markedSessions' =
          Append(markedSessions, MarkedAttendanceOf(session, timestamp))
    /\ availableSessions' =
          SelectSeq(availableSessions, LAMBDA s : s.sessionId # session.sessionId)
    /\ toast' = "Attendance marked successfully"
    /\ UNCHANGED <<loadPending, scanClosure, readVars, isFetchingSessions>>
    /\ UNCHANGED <<shellVars, connVars, lecturerVars>>

\* A power cycle while the student is around.
StudentPowerCycle ==
    /\ ClientPowerCycle
    /\ UNCHANGED <<lecturerVars, studentVars>>

(***************************************************************************)
(* Auth backend (auth-server/yepa): /api/auth/initiate, /api/auth/complete *)
(***************************************************************************)
\* calculateExpirationDate(10, 'minutes') and expirationTtl: 600.
OTP_MINUTES == 10

\* Values newId('user') can return.
UserIds == {"user_1", "user_2"}

\* Values generateOtp({length: 6}) can return, and what a client can type.
Otps == {"123456", "654321"}

\* What no endpoint of the auth backend touches.
authFrame == <<periphVars, currentScreen, email, clockVars, toast, connVars,
               lecturerVars, studentVars>>

\* Seeded fault: an OTP is taken as expired at its expiry time already.
verifyOtpExpiredAtExpiry(cache, now, userId, otpToVerify) ==
    IF userId \notin DOMAIN cache
    THEN [isValid |-> FALSE, message |-> "Invalid or expired OTP"]
    ELSE IF cache[userId].otp # otpToVerify
    THEN [isValid |-> FALSE, message |-> "Invalid OTP"]
    ELSE IF cache[userId].expiresAt <= now
    THEN [isValid |-> FALSE, message |-> "Expired OTP"]
    ELSE [isValid |-> TRUE, message |-> "OTP verified successfully"]

\* verifyOtp({userId, cache, otpToVerify}) evaluated at new Date() = now;
\* cache.get of a key that is not stored gives null.
verifyOtp(cache, now, userId, otpToVerify) ==
    IF userId \notin DOMAIN cache
    THEN [isValid |-> FALSE, message |-> "Invalid or expired OTP"]
    ELSE IF cache[userId].otp # otpToVerify
    THEN [isValid |-> FALSE, message |-> "Invalid OTP"]
    ELSE IF cache[userId].expiresAt < now
    THEN [isValid |-> FALSE, message |-> "Expired OTP"]
    ELSE [isValid |-> TRUE, message |-> "OTP verified successfully"]

\* The response of POST /api/auth/complete {id, otp} on the given cache;
\* gone: the entry was dropped between verifyOtp and the second cache.get.
CompleteResponse(cache, now, id, otp, gone) ==
    IF ~verifyOtp(cache, now, id, otp).isValid
    THEN [status |-> 400, success |-> FALSE,
          message |-> verifyOtp(cache, now, id, otp).message]
    ELSE IF gone
    THEN [status |-> 400, success |-> FALSE,
          message |-> "OTP not found or expired"]
    ELSE [status |-> 200, success |-> TRUE,
          message |-> "Authentication successful"]

\* db.insert(users).values({email, id}).onConflictDoNothing(): id is the
\* primary key and email is UNIQUE.
InsertUser(table, id, emailAddress) ==
    IF \E user \in table : user.id = id \/ user.email = emailAddress
    THEN table
    ELSE table \cup {[id |-> id, email |-> emailAddress]}

\* cache.delete(key)
CacheDelete(cache, key) == [k \in DOMAIN cache \ {key} |-> cache[k]]

\* POST /api/auth/initiate {email}: a new id and OTP are stored for ten
\* minutes, then the mail is sent; a failed send answers 500 with the entry
\* stored.
AuthInitiate(emailAddress, userId, otp, mailSent) ==
    /\ userId \notin DOMAIN otpCache
    /\ \A user \in users : user.id # userId
    /\ request' = [op |-> "initiate", email |-> emailAddress]
    /\ otpCache' = Put(otpCache, userId,
                       [otp |-> otp, expiresAt |-> serverNow + OTP_MINUTES,
                        email |-> emailAddress])
    /\ response' = IF mailSent
                   THEN [status |-> 200, success |-> TRUE,
                         message |-> "OTP sent to provided email address",
                         id |-> userId]
                   ELSE [status |-> 500, success |-> FALSE,
                         message |-> "Internal server error"]
    /\ UNCHANGED <<users, serverNow>>
    /\ UNCHANGED authFrame

\* POST /api/auth/complete {id, otp}.  The handler awaits between verifyOtp
\* and its own cache.get, so an entry whose time to live has run out may be
\* dropped in between (gone).
AuthComplete(id, otp, gone) ==
    /\ gone => /\ verifyOtp(otpCache, serverNow, id, otp).isValid
               /\ otpCache[id].expiresAt <= serverNow
    /\ request' = [op |-> "complete", id |-> id, otp |-> otp]
    /\ response' = CompleteResponse(otpCache, serverNow, id, otp, gone)
    /\ IF ~verifyOtp(otpCache, serverNow, id, otp).isValid
       THEN UNCHANGED <<users, otpCache>>
       ELSE IF gone
       THEN /\ otpCache' = CacheDelete(otpCache, id)
            /\ UNCHANGED users
       ELSE /\ users' = InsertUser(users, id, otpCache[id].email)
            /\ otpCache' = CacheDelete(otpCache, id)
    /\ UNCHANGED serverNow
    /\ UNCHANGED authFrame

\* The KV namespace drops an entry whose expirationTtl has run out.
KvExpire(id) ==
    /\ id \in DOMAIN otpCache
    /\ otpCache[id].expiresAt <= serverNow
    /\ otpCache' = CacheDelete(otpCache, id)
    /\ UNCHANGED <<users, serverNow, request, response>>
    /\ UNCHANGED authFrame

\* A minute passes on the backend.
ServerTick ==
    /\ serverNow < MaxServerNow
    /\ serverNow' = serverNow + 1
    /\ UNCHANGED <<otpCache, users, request, response>>
    /\ UNCHANGED authFrame

(***************************************************************************)
(* Timestamps the phone puts on the wire                                   *)
(***************************************************************************)
\* A JavaScript number with at most three decimals: whole + thousandths/1000.
\* Date.now() / 1000
now(ms) == [whole |-> ms \div 1000, thousandths |-> ms % 1000]

\* number + integer
Plus(number, integer) ==
    [whole |-> number.whole + integer, thousandths |-> number.thousandths]

\* Values of expiryMinutesNum that pass the validation (at least 5).
ExpiryMinutes == {5, 60}

\* markAttendance builds its body: timestamp = now().
BuildMarkBody ==
    /\ written' = [field |-> "timestamp", value |-> now(dateNow)]
    /\ UNCHANGED <<dateNow, periphVars, currentScreen, email, authVars, toast,
                   connVars,
                   lecturerVars, studentVars>>

\* createAttendanceSession builds its body:
\* expiryTimestamp = now() + expiryMinutesNum * 60.
BuildCreateBody(expiryMinutesNum) ==
    /\ written' = [field |-> "expiryTimestamp",
                   value |-> Plus(now(dateNow), expiryMinutesNum * 60)]
    /\ UNCHANGED <<dateNow, periphVars, currentScreen, email, authVars, toast,
                   connVars,
                   lecturerVars, studentVars>>

\* A millisecond passes on the phone.
WallClockTick ==
    /\ dateNow < MaxDateNow
    /\ dateNow' = dateNow + 1
    /\ UNCHANGED <<written, periphVars, currentScreen, email, authVars, toast,
                   connVars,
                   lecturerVars, studentVars>>

(***************************************************************************)
(* App: logging out and in on the same phone                               *)
(***************************************************************************)
(***************************************************************************)
(* The lecturer's create form: the expiry field                            *)
(***************************************************************************)
\* Text is a sequence of characters.
DigitChars == <<"0", "1", "2", "3", "4", "5", "6", "7", "8", "9">>

IsDigit(char) == \E d \in DOMAIN DigitChars : DigitChars[d] = char

DigitValue(char) == (CHOOSE d \in DOMAIN DigitChars : DigitChars[d] = char) - 1

\* The text without its leading white space.
RECURSIVE TrimStart(_)
TrimStart(text) ==
    IF text # <<>> /\ Head(text) = " " THEN TrimStart(Tail(text)) ELSE text

\* The longest prefix of the text made of digits.
RECURSIVE LeadingDigits(_)
LeadingDigits(text) ==
    IF text # <<>> /\ IsDigit(Head(text))
    THEN <<Head(text)>> \o LeadingDigits(Tail(text))
    ELSE <<>>

\* The number a sequence of digits denotes in base 10, acc being the value of
\* the digits read so far.
RECURSIVE DecimalValue(_, _)
DecimalValue(digits, acc) ==
    IF digits = <<>> THEN acc
    ELSE DecimalValue(Tail(digits), 10 * acc + DigitValue(Head(digits)))

\* parseInt(text, 10): leading white space is skipped, a sign is read, then
\* digits up to the first other character; NaN when there is no digit.
parseInt(text) ==
    LET trimmed == TrimStart(text)
        signed == trimmed # <<>> /\ Head(trimmed) \in {"+", "-"}
        digits == LeadingDigits(IF signed THEN Tail(trimmed) ELSE trimmed)
    IN IF digits = <<>>
       THEN [isNaN |-> TRUE, value |-> 0]
       ELSE [isNaN |-> FALSE,
             value |-> IF signed /\ Head(trimmed) = "-"
                       THEN 0 - DecimalValue(digits, 0)
                       ELSE DecimalValue(digits, 0)]

\* Texts the expiry field may hold when Create Session is pressed: the
\* default "60", and what the numeric keyboard or a paste can leave there.
ExpiryTexts ==
    {<<"6", "0">>, <<"5">>, <<"4">>, <<>>, <<"a", "b">>, <<"7", ".", "5">>,
     <<"1", "0", "m">>, <<"-", "5">>, <<" ", "6">>}

\* The Create Session button with the expiry field as typed: the connection
\* guard, the validation of the field, then the body with
\* expiryTimestamp = now() + expiryMinutesNum * 60 and the write (the document
\* holds the number as as<unsigned long>() converts it); once the write
\* resolved, the save with no records and retrieveAttendances().
createAttendanceSessionTyped(sessionId, expiryMinutes) ==
    LET expiryMinutesNum == parseInt(expiryMinutes)
        expiryTimestamp == Plus(now(dateNow), expiryMinutesNum.value * 60)
        value == CreateDoc(sessionId, "CSC101", "Intro", expiryTimestamp.whole)
    IN /\ IF ~lecturerConnected
          THEN /\ toast' = "Device not connected"
               /\ UNCHANGED <<periphVars, lecturerVars, written>>
          ELSE IF expiryMinutesNum.isNaN \/ expiryMinutesNum.value < 5
          THEN /\ toast' = "Expiry time must be at least 5 minutes"
               /\ UNCHANGED <<periphVars, lecturerVars, written>>
          ELSE /\ written' = [field |-> "expiryTimestamp",
                              value |-> expiryTimestamp]
               /\ IF ~linkUp
                  THEN /\ toast' = "Failed to create attendance session"
                       /\ UNCHANGED <<periphVars, lecturerVars>>
                  ELSE /\ sessions' = CreateSessions(sessions, value)
                       /\ serial' = "Retrieved attendances:"
                       /\ UNCHANGED <<markedAttendances, millis>>
                       /\ RetrieveInto(saveAttendanceSession(
                                           Tables, CreatedSessionData(value)))
       /\ UNCHANGED <<connVars, currentScreen, email, authVars, dateNow,
                      studentVars>>

\* No scanAndConnect call, scan, timer or connect attempt is alive.
Idle ==
    /\ permissionPending = 0
    /\ ~scanActive
    /\ ~activeTimer
    /\ staleTimers = 0
    /\ connectPending = 0

\* A second student who uses the same phone.
OtherStudentEmail == "obi@student.oauife.edu.ng"

\* email.endsWith("@student.oauife.edu.ng") ? student : lecturer, as the
\* dashboard it selects.
DashboardOf(account) ==
    IF account \in {StudentEmail, OtherStudentEmail}
    THEN "studentDashboard"
    ELSE "lecturerDashboard"

\* What the App handlers leave alone: the peripheral, the backend, the wall
\* clock and the SQLite tables.
appFrame == <<periphVars, authVars, clockVars, AttendanceSessions,
              AttendanceRecords, StudentAttendances>>

\* No dashboard is mounted: no useState of a screen, no promise or timer of
\* one; the unmount cleanup stopped the scan and cancelled the connection.
NoDashboard ==
    /\ connectionState' = "disconnected"
    /\ device' = "null"
    /\ linkUp' = FALSE
    /\ scanActive' = FALSE
    /\ UNCHANGED <<permissionPending, activeTimer, staleTimers, connectPending>>
    /\ attendanceSessions' = <<>>
    /\ freshFetch' = FALSE
    /\ markedSessions' = <<>>
    /\ availableSessions' = <<>>
    /\ loadPending' = FALSE
    /\ scanClosure' = <<>>
    /\ isFetchingSessions' = FALSE
    /\ UNCHANGED readVars

\* handleLogout from a dashboard on which nothing is under way: the keys are
\* removed from AsyncStorage, or multiRemove throws.
handleLogout(removed) ==
    /\ currentScreen \in {"studentDashboard", "lecturerDashboard"}
    /\ Idle
    /\ ~loadPending
    /\ readPending = {}
    /\ readServed = {}
    /\ IF removed
       THEN /\ currentScreen' = "login"
            /\ email' = ""
            /\ toast' = "Logged out successfully"
            /\ NoDashboard
       ELSE /\ toast' = "Failed to log out"
            /\ UNCHANGED <<currentScreen, email, connVars, attendanceSessions,
                           freshFetch, markedSessions, availableSessions,
                           loadPending, scanClosure, readVars, isFetchingSessions>>
    /\ UNCHANGED appFrame

\* handleLogin(_email): initiateAuth answers success, answers failure with a
\* message, or throws.
handleLogin(_email, outcome) ==
    /\ currentScreen = "login"
    /\ IF outcome = "success"
       THEN /\ email' = _email
            /\ currentScreen' = "otpVerification"
            /\ UNCHANGED toast
       ELSE /\ toast' = IF outcome = "failure"
                        THEN "Internal server error"
                        ELSE "An error occurred during login"
            /\ UNCHANGED <<email, currentScreen>>
    /\ UNCHANGED <<connVars, lecturerVars, studentVars, periphVars, authVars,
                   clockVars>>

\* handleOTPVerification(otp): completeAuth answers success (no firstName is
\* stored after a logout, so UserDetails is shown next), answers failure
\* with a message, or throws.
handleOTPVerification(outcome) ==
    /\ currentScreen = "otpVerification"
    /\ IF outcome = "success"
       THEN /\ currentScreen' = "userDetails"
            /\ UNCHANGED toast
       ELSE /\ toast' = IF outcome = "failure"
                        THEN "Invalid OTP"
                        ELSE "An error occurred during OTP verification"
            /\ UNCHANGED currentScreen
    /\ UNCHANGED <<email, connVars, lecturerVars, studentVars, periphVars,
                   authVars, clockVars>>

\* handleUserDetailsSubmit(details): the details are stored and the dashboard
\* of the account mounts (the student's mount effect starts
\* loadMarkedAttendances), or AsyncStorage throws.
handleUserDetailsSubmit(stored) ==
    /\ currentScreen = "userDetails"
    /\ IF stored
       THEN /\ currentScreen' = DashboardOf(email)
            /\ toast' = "User details saved successfully"
            /\ loadPending' = (DashboardOf(email) = "studentDashboard")
       ELSE /\ toast' = "An error occurred while submitting user details"
            /\ UNCHANGED <<currentScreen, loadPending>>
    /\ UNCHANGED <<email, connVars, lecturerVars, StudentAttendances,
                   markedSessions, availableSessions, scanClosure, readVars,
                   isFetchingSessions, periphVars, authVars, clockVars>>

(***************************************************************************)
(* Specifications                                                          *)
(***************************************************************************)
InitCommon ==
    /\ EmptyStore
    /\ toast = "none"
    /\ connectionState = "disconnected"
    /\ device = "null"
    /\ linkUp = FALSE
    /\ permissionPending = 0
    /\ scanActive = FALSE
    /\ activeTimer = FALSE
    /\ staleTimers = 0
    /\ connectPending = 0
    /\ AttendanceSessions = EmptyMap
    /\ AttendanceRecords = EmptyBag
    /\ attendanceSessions = <<>>
    /\ freshFetch = FALSE
    /\ StudentAttendances = EmptyMap
    /\ markedSessions = <<>>
    /\ availableSessions = <<>>
    /\ loadPending = TRUE
    /\ scanClosure = <<>>
    /\ readPending = {}
    /\ readServed = {}
    /\ isFetchingSessions = FALSE
    /\ otpCache = EmptyMap
    /\ users = {}
    /\ serverNow = 0
    /\ request = [op |-> "none"]
    /\ response = [status |-> 0]
    /\ dateNow = 0
    /\ written = [field |-> "none"]

\* A student is logged in.
Init == InitCommon /\ currentScreen = "studentDashboard" /\ email = StudentEmail

\* A lecturer is logged in.
InitLecturer ==
    InitCommon /\ currentScreen = "lecturerDashboard" /\ email = LecturerEmail

\* Either.
InitClient == Init \/ InitLecturer

\* The peripheral under arbitrary clients.
Next ==
    \/ \E value \in CreateValues :
          CreateAttendanceCallback_onWrite(value) /\ UNCHANGED clientVars
    \/ \E value \in MarkValues :
          MarkAttendanceCallback_onWrite(value) /\ UNCHANGED clientVars
    \/ RetrieveSessionsCallback_onRead /\ UNCHANGED clientVars
    \/ RetrieveAttendancesCallback_onRead /\ UNCHANGED clientVars
    \/ loop /\ UNCHANGED clientVars
    \/ PowerCycle /\ UNCHANGED clientVars

Spec == Init /\ [][Next]_vars

\* The Arduino runtime calls loop() again and again.
SpecLive == Spec /\ WF_vars(loop /\ UNCHANGED clientVars)

\* The same, with removeExpiredSessions() invoked at arbitrary moments.
NextEvict ==
    \/ Next
    \/ removeExpiredSessions /\ UNCHANGED clientVars

SpecEvict == Init /\ [][NextEvict]_vars

\* The steps of the connection state machine that both screens share.
ConnSteps ==
    \/ scanAndConnect
    \/ PermissionsGranted
    \/ PermissionsDenied
    \/ ScanFound
    \/ ScanError
    \/ ScanTimeout
    \/ ConnectResolved
    \/ ConnectRejected
    \/ resetConnection
    \/ LinkLost

\* The same steps for a user who taps Connect only when nothing is under way.
ConnStepsOneTap ==
    \/ Idle /\ scanAndConnect
    \/ PermissionsGranted
    \/ PermissionsDenied
    \/ ScanFound
    \/ ScanError
    \/ ScanTimeout
    \/ ConnectResolved
    \/ ConnectRejected
    \/ resetConnection
    \/ LinkLost

\* The lecturer client against the peripheral, with students marking.
NextLecturer ==
    \/ ConnStepsOneTap
    \/ onDisconnected
    \/ retrieveAttendances /\ UNCHANGED studentVars
    \/ \E value \in LecturerCreates :
          createAttendanceSession(value) /\ UNCHANGED studentVars
    \/ \E value \in LecturerSeenMarks : StudentMarks(value) /\ UNCHANGED studentVars
    \/ LecturerTick
    \/ LecturerEviction /\ UNCHANGED studentVars
    \/ LecturerPowerCycle /\ UNCHANGED studentVars

SpecLecturer == InitLecturer /\ [][NextLecturer]_vars

\* The student client against the peripheral, with sessions being created.
NextStudent ==
    \/ StudentMount
    \/ loadMarkedAttendances
    \/ ConnStepsOneTap
    \/ Refresh
    \/ \E closure \in readPending : ReadResolved(closure)
    \/ \E closure \in readPending : ReadRejected(closure)
    \/ \E i \in DOMAIN availableSessions, timestamp \in MarkTimes :
          markAttendance(availableSessions[i], timestamp)
    \/ StudentPowerCycle
    \/ \E value \in OtherCreates :
          CreateAttendanceCallback_onWrite(value) /\ UNCHANGED clientVars

SpecStudent == Init /\ [][NextStudent]_vars

\* One mounted life of the student screen, on a phone whose database can
\* fail a statement.
NextStudentDbFaults ==
    \/ loadMarkedAttendances
    \/ ConnStepsOneTap
    \/ Refresh
    \/ \E closure \in readPending : ReadResolved(closure)
    \/ \E closure \in readPending : ReadRejected(closure)
    \/ \E i \in DOMAIN availableSessions, timestamp \in MarkTimes :
          markAttendance(availableSessions[i], timestamp)
    \/ \E i \in DOMAIN availableSessions, timestamp \in MarkTimes :
          markAttendanceSaveFails(availableSessions[i], timestamp)
    \/ \E value \in OtherCreates :
          CreateAttendanceCallback_onWrite(value) /\ UNCHANGED clientVars

SpecStudentDbFaults == Init /\ [][NextStudentDbFaults]_vars

\* create-session requests written to the same peripheral by the phone of
\* another organizer.
ForeignCreates == {CreateDoc("s3", "PHY101", "Physics", 2)}

\* The lecturer client against a peripheral that other organizers use too.
NextSharedPeripheral ==
    \/ ConnStepsOneTap
    \/ onDisconnected
    \/ retrieveAttendances /\ UNCHANGED studentVars
    \/ \E value \in LecturerCreates :
          createAttendanceSession(value) /\ UNCHANGED studentVars
    \/ \E value \in LecturerSeenMarks : StudentMarks(value) /\ UNCHANGED studentVars
    \/ \E value \in ForeignCreates :
          /\ CreateAttendanceCallback_onWrite(value)
          /\ freshFetch' = FALSE
          /\ UNCHANGED <<AttendanceSessions, AttendanceRecords, attendanceSessions>>
          /\ UNCHANGED <<appVars, connVars, studentVars>>

SpecSharedPeripheral == InitLecturer /\ [][NextSharedPeripheral]_vars

\* The lecturer client on a phone whose database can fail a statement.
NextLecturerDbFaults ==
    \/ ConnStepsOneTap
    \/ onDisconnected
    \/ retrieveAttendances /\ UNCHANGED studentVars
    \/ \E value \in LecturerCreates :
          createAttendanceSession(value) /\ UNCHANGED studentVars
    \/ \E value \in LecturerSeenMarks : StudentMarks(value) /\ UNCHANGED studentVars
    \/ \E failing \in Ids, k \in 1..MaxMarks :
          retrieveAttendancesSaveFails(failing, k) /\ UNCHANGED studentVars

SpecLecturerDbFaults == InitLecturer /\ [][NextLecturerDbFaults]_vars

\* The login screen is shown.
InitAuth == InitCommon /\ currentScreen = "login" /\ email = ""

\* The auth backend under arbitrary requests.
NextAuth ==
    \/ \E emailAddress \in {LecturerEmail, StudentEmail}, userId \in UserIds,
          otp \in Otps, mailSent \in BOOLEAN :
          AuthInitiate(emailAddress, userId, otp, mailSent)
    \/ \E id \in UserIds, otp \in Otps, gone \in BOOLEAN :
          AuthComplete(id, otp, gone)
    \/ \E id \in UserIds : KvExpire(id)
    \/ ServerTick

SpecAuth == InitAuth /\ [][NextAuth]_vars

\* The request bodies the dashboards build as the wall clock runs.
NextWire ==
    \/ BuildMarkBody
    \/ \E expiryMinutesNum \in ExpiryMinutes : BuildCreateBody(expiryMinutesNum)
    \/ WallClockTick

SpecWire == InitClient /\ [][NextWire]_vars

\* One mounted life of the student screen, the answer to a list-sessions read
\* reaching the screen some time after the peripheral sent it.
NextStudentLateRead ==
    \/ loadMarkedAttendances
    \/ ConnStepsOneTap
    \/ Refresh
    \/ \E closure \in readPending : ReadServed(closure)
    \/ \E served \in readServed : ReadDelivered(served)
    \/ \E closure \in readPending : ReadRejected(closure)
    \/ \E i \in DOMAIN availableSessions, timestamp \in MarkTimes :
          markAttendance(availableSessions[i], timestamp)
    \/ \E value \in OtherCreates :
          CreateAttendanceCallback_onWrite(value) /\ UNCHANGED clientVars

SpecStudentLateRead == Init /\ [][NextStudentLateRead]_vars

\* A millisecond passes on the lecturer's phone.
LecturerClockTick ==
    /\ dateNow < MaxPhoneClock
    /\ WallClockTick

\* The lecturer client as the wall clock of the phone runs.
NextLecturerClock ==
    \/ ConnStepsOneTap
    \/ onDisconnected
    \/ retrieveAttendances /\ UNCHANGED studentVars
    \/ \E value \in LecturerCreates :
          createAttendanceSession(value) /\ UNCHANGED studentVars
    \/ \E value \in LecturerSeenMarks : StudentMarks(value) /\ UNCHANGED studentVars
    \/ LecturerClockTick

SpecLecturerClock == InitLecturer /\ [][NextLecturerClock]_vars

\* Two students taking turns on one phone, each marking while logged in.
NextAccounts ==
    \/ loadMarkedAttendances
    \/ IsStudent /\ ConnStepsOneTap
    \/ \E closure \in readPending : ReadResolved(closure)
    \/ \E closure \in readPending : ReadRejected(closure)
    \/ \E i \in DOMAIN availableSessions, timestamp \in MarkTimes :
          markAttendance(availableSessions[i], timestamp)
    \/ \E value \in OtherCreates :
          CreateAttendanceCallback_onWrite(value) /\ UNCHANGED clientVars
    \/ \E removed \in BOOLEAN : handleLogout(removed)
    \/ \E _email \in {StudentEmail, OtherStudentEmail},
          outcome \in {"success", "failure", "error"} : handleLogin(_email, outcome)
    \/ \E outcome \in {"success", "failure", "error"} : handleOTPVerification(outcome)
    \/ \E stored \in BOOLEAN : handleUserDetailsSubmit(stored)

SpecAccounts == Init /\ [][NextAccounts]_vars

\* Either dashboard with its write operations, read responses reaching the
\* student screen some time after the peripheral sent them.
NextWrites ==
    \/ IsStudent /\ NextStudentLateRead
    \/ /\ IsLecturer
       /\ \/ ConnStepsOneTap
          \/ onDisconnected
          \/ retrieveAttendances /\ UNCHANGED studentVars
          \/ \E value \in LecturerCreates :
                createAttendanceSession(value) /\ UNCHANGED studentVars
          \/ \E value \in LecturerSeenMarks :
                StudentMarks(value) /\ UNCHANGED studentVars

SpecWrites == InitClient /\ [][NextWrites]_vars

\* The lecturer client with the expiry field holding any of the texts, as the
\* wall clock of the phone runs.
NextCreateForm ==
    \/ ConnStepsOneTap
    \/ onDisconnected
    \/ \E sessionId \in {"s1", "s2"}, expiryMinutes \in ExpiryTexts :
          createAttendanceSessionTyped(sessionId, expiryMinutes)
    \/ LecturerClockTick

SpecCreateForm == InitLecturer /\ [][NextCreateForm]_vars

\* The connection state machine of either screen, with the reads the student
\* screen starts on connecting.
NextClient ==
    \/ ConnSteps
    \/ onDisconnected
    \/ \E closure \in readPending : ReadResolved(closure)
    \/ \E closure \in readPending : ReadRejected(closure)
    \/ ClientPowerCycle /\ UNCHANGED <<lecturerVars, studentVars>>

SpecClient == InitClient /\ [][NextClient]_vars

\* Timers fire, and the native module delivers the disconnection event.
SpecClientLive ==
    SpecClient /\ WF_vars(ScanTimeout) /\ WF_vars(onDisconnected)

(***************************************************************************)
(* Claims about the peripheral store                                       *)
(***************************************************************************)
StoredIds == DOMAIN sessions

\* The record a well-formed mark-attendance request asks to store.
RequestedRecord(value) ==
    [name         |-> value.doc.name,
     matricNumber |-> value.doc.matricNumber,
     timestamp    |-> value.doc.timestamp]

\* C1: the store never holds more than MAX_SESSIONS sessions, and a
\* create-session request arriving at a store that holds exactly MAX_SESSIONS
\* sessions leaves the sessions and their records unchanged.
C1_CapacityBound ==
    /\ [](Cardinality(StoredIds) <= MAX_SESSIONS)
    /\ [][\A value \in CreateValues :
            (Cardinality(StoredIds) = MAX_SESSIONS
                /\ CreateAttendanceCallback_onWrite(value))
            => UNCHANGED <<sessions, markedAttendances>>]_vars

\* A full store holding attendance records has just refused a create.
C1_Witness ==
    /\ Cardinality(StoredIds) = MAX_SESSIONS
    /\ TotalMarks(markedAttendances) > 0
    /\ serial = "Maximum number of sessions reached"

\* C2: a mark-attendance request is stored (appended to its session's
\* records) if and only if its sessionId is in the store and its timestamp is
\* <= that session's expiry; otherwise the whole store is unchanged.
C2_MarkStoredIff ==
    [][\A value \in WellFormedMarks :
          MarkAttendanceCallback_onWrite(value) =>
              IF /\ value.doc.sessionId \in StoredIds
                 /\ value.doc.timestamp <= sessions[value.doc.sessionId].expiryTimestamp
              THEN /\ markedAttendances' =
                        [markedAttendances EXCEPT ![value.doc.sessionId] =
                            Append(@, RequestedRecord(value))]
                   /\ sessions' = sessions
              ELSE UNCHANGED <<sessions, markedAttendances>>]_vars

\* Session s1 with expiry 2 holds exactly one record, marked at 1, and a
\* mark past the expiry has just been dropped.
C2_Witness ==
    /\ "s1" \in StoredIds
    /\ sessions["s1"].expiryTimestamp = 2
    /\ serial = "Attendance session has expired"
    /\ SnapshotAttendances(sessions, markedAttendances)["s1"].attendances
          = <<[name |-> "Ada", matricNumber |-> "EEG/2019/001", timestamp |-> 1]>>

\* Rows of the lecturer's AttendanceRecords table for one session.
RecordCount(rows, id) ==
    BagCardinality([row \in {r \in DOMAIN rows : r.sessionId = id} |-> rows[row]])

\* C3: a lecturer fetch with no mark accepted and nothing evicted since the
\* previous fetch leaves each session's number of AttendanceRecords rows as
\* the previous fetch left it.
C3_FetchIdempotent ==
    [][(freshFetch /\ freshFetch')
          => \A id \in Ids :
                RecordCount(AttendanceRecords', id) = RecordCount(AttendanceRecords, id)]_vars

\* C4: a session whose mark the student has applied locally is never in the
\* student's markable list again.
C4_MarkedNeverMarkable ==
    \A i \in DOMAIN availableSessions :
        availableSessions[i].sessionId \notin
            SessionIdsOf(fetchStudentAttendances(StudentAttendances, StudentEmail))

\* C5: while the peripheral runs, every stored session whose expiry has
\* passed is eventually removed from the store.
C5_ExpiredEventuallyEvicted ==
    \A id \in Ids :
        (id \in StoredIds /\ sessions[id].expiryTimestamp <= millis)
            ~> (id \notin StoredIds)

\* C6: removeExpiredSessions() at time millis removes exactly the sessions
\* with expiry <= millis together with their records, leaves every other
\* session and its records unchanged, and no records are ever held for an id
\* that is not in the session table.
C6_EvictionExact ==
    /\ [](\A id \in Ids \ StoredIds : markedAttendances[id] = <<>>)
    /\ [][removeExpiredSessions =>
            /\ DOMAIN sessions' =
                  {id \in StoredIds : sessions[id].expiryTimestamp > millis}
            /\ \A id \in DOMAIN sessions' :
                  /\ sessions'[id] = sessions[id]
                  /\ markedAttendances'[id] = markedAttendances[id]
            /\ \A id \in StoredIds \ DOMAIN sessions' :
                  markedAttendances'[id] = <<>>]_vars

\* removeExpiredSessions() has just run at time 1: no expired session is
\* left, and a live session kept its records.
C6_Witness ==
    /\ serial = "Remaining active sessions: "
    /\ millis = 1
    /\ \A id \in StoredIds : sessions[id].expiryTimestamp > millis
    /\ \E id \in StoredIds : markedAttendances[id] # <<>>

\* C7: while a session id stays in the store its courseCode, courseName and
\* expiry never change.
C7_SessionImmutable ==
    [][\A id \in StoredIds \cap DOMAIN sessions' : sessions'[id] = sessions[id]]_vars

\* C8: a create-session or mark-attendance request that does not parse or
\* lacks a required field leaves sessions and records unchanged.
C8_MalformedDropped ==
    [][/\ \A value \in MalformedCreates :
              CreateAttendanceCallback_onWrite(value)
                  => UNCHANGED <<sessions, markedAttendances>>
       /\ \A value \in MalformedMarks :
              MarkAttendanceCallback_onWrite(value)
                  => UNCHANGED <<sessions, markedAttendances>>]_vars

\* C9: without eviction, a well-formed create with a new id below capacity
\* adds exactly that session, a store holding MAX_SESSIONS sessions keeps
\* exactly those until a power cycle, and list-sessions returns exactly the
\* stored sessions, each once.
C9_FirstFiveKept ==
    /\ [][\A value \in WellFormedCreates :
            (CreateAttendanceCallback_onWrite(value)
                /\ Cardinality(StoredIds) < MAX_SESSIONS
                /\ value.doc.sessionId \notin StoredIds)
            => /\ DOMAIN sessions' = StoredIds \cup {value.doc.sessionId}
               /\ \A id \in StoredIds : sessions'[id] = sessions[id]]_vars
    /\ [][Cardinality(StoredIds) = MAX_SESSIONS
            => (sessions' = sessions \/ sessions' = EmptyMap)]_vars
    /\ [](LET snap == SnapshotSessions(sessions)
          IN /\ Len(snap) = Cardinality(StoredIds)
             /\ {snap[i].sessionId : i \in DOMAIN snap} = StoredIds
             /\ \A i \in DOMAIN snap :
                   /\ snap[i].courseCode = sessions[snap[i].sessionId].courseCode
                   /\ snap[i].courseName = sessions[snap[i].sessionId].courseName
                   /\ snap[i].expiryTimestamp
                         = sessions[snap[i].sessionId].expiryTimestamp)

\* s1..s5 fill the store, a further create has just been refused, and
\* list-sessions returns five entries.
C9_Witness ==
    /\ StoredIds = {"s1", "s2", "s3", "s4", "s5"}
    /\ serial = "Maximum number of sessions reached"
    /\ Len(SnapshotSessions(sessions)) = MAX_SESSIONS

\* C10: a valid mark by a participant who already has a record in that live
\* session is stored as well: list-attendances afterwards returns the former
\* records of the session followed by the new one.
C10_NoDeviceDedup ==
    [][\A value \in WellFormedMarks :
          (/\ MarkAttendanceCallback_onWrite(value)
           /\ value.doc.sessionId \in StoredIds
           /\ value.doc.timestamp <= sessions[value.doc.sessionId].expiryTimestamp
           /\ \E i \in DOMAIN markedAttendances[value.doc.sessionId] :
                 /\ markedAttendances[value.doc.sessionId][i].name = value.doc.name
                 /\ markedAttendances[value.doc.sessionId][i].matricNumber
                       = value.doc.matricNumber)
          => SnapshotAttendances(sessions', markedAttendances')
                    [value.doc.sessionId].attendances
                = Append(SnapshotAttendances(sessions, markedAttendances)
                             [value.doc.sessionId].attendances,
                         RequestedRecord(value))]_vars

\* The same participant recorded twice in s1, in arrival order (2 before 1).
C10_Witness ==
    /\ "s1" \in StoredIds
    /\ serial = "Attendance marked successfully"
    /\ SnapshotAttendances(sessions, markedAttendances)["s1"].attendances
          = <<[name |-> "Ada", matricNumber |-> "EEG/2019/001", timestamp |-> 2],
              [name |-> "Ada", matricNumber |-> "EEG/2019/001", timestamp |-> 1]>>

\* C11: list-sessions and list-attendances change neither the stored sessions
\* nor any session's records, so the snapshot either endpoint would return is
\* the same after a read as before it: consecutive reads return equal
\* snapshots.
C11_ReadsSideEffectFree ==
    [][(RetrieveSessionsCallback_onRead \/ RetrieveAttendancesCallback_onRead)
         => /\ UNCHANGED <<sessions, markedAttendances>>
            /\ SnapshotSessions(sessions') = SnapshotSessions(sessions)
            /\ SnapshotAttendances(sessions', markedAttendances')
                  = SnapshotAttendances(sessions, markedAttendances)]_vars

\* list-attendances has just been served from a store with two sessions, one
\* of them holding a record.
C11_Witness ==
    /\ serial = "Retrieved attendances:"
    /\ Cardinality(StoredIds) >= 2
    /\ TotalMarks(markedAttendances) > 0

\* C12: the connection state becomes scanning only from disconnected (a
\* scanAndConnect call that finds another state being a no-op).
C12_ScanningOnlyFromDisconnected ==
    [][(connectionState' = "scanning" /\ connectionState # "scanning")
         => connectionState = "disconnected"]_vars

\* C13: while the machine is scanning the scan's timeout is armed; when it
\* fires the machine goes scanning -> disconnected, the radio scan is stopped
\* and "Scan timed out. No device found." is shown; so a scan that finds
\* nothing does not stay in scanning.
C13_ScanTimeout ==
    /\ [](connectionState = "scanning" => (activeTimer /\ scanActive))
    /\ [][(ScanTimeout /\ connectionState = "scanning")
            => /\ connectionState' = "disconnected"
               /\ ~scanActive'
               /\ toast' = "Scan timed out. No device found."]_vars
    /\ (connectionState = "scanning") ~> (connectionState # "scanning")

C13_Witness ==
    /\ toast = "Scan timed out. No device found."
    /\ connectionState = "disconnected"
    /\ ~scanActive
    /\ ~activeTimer
    /\ connectPending = 0

\* C14: from every state in which the machine is scanning or connecting it
\* eventually is connected or disconnected, whether or not the radio
\* library ever settles its promises.
C14_NoLimbo ==
    (connectionState \in {"scanning", "connecting"})
        ~> (connectionState \in {"connected", "disconnected"})

\* C15: a scan error, a connect error, a rejected characteristic read and a
\* rejected characteristic write each show a failure to the user and leave
\* the connection state machine in disconnected.
C15_TransportFailureResets ==
    [][(\/ ScanError
        \/ ConnectRejected
        \/ \E closure \in readPending : ReadRejected(closure)
        \/ /\ device # "null"
           /\ connectionState = "connected"
           /\ ~linkUp
           /\ \E i \in DOMAIN availableSessions, timestamp \in MarkTimes :
                 markAttendance(availableSessions[i], timestamp))
         => /\ connectionState' = "disconnected"
            /\ toast' \in {"Failed to scan for devices",
                           "Failed to connect to ESP32-Attendance",
                           "Failed to retrieve available sessions",
                           "Failed to mark attendance"}]_vars

\* C16: once the link of a connected client is lost, the machine leaves
\* connected (for disconnected, with the scan stopped and the device
\* released), as it does on an explicit disconnect.
C16_LinkLossLeavesConnected ==
    (connectionState = "connected" /\ device # "null" /\ ~linkUp)
        ~> (connectionState # "connected")

\* C17: while the machine is connecting a connect attempt is in flight; when
\* connect and discovery resolve the machine is connected with the device
\* stored; when either rejects the machine is disconnected with the device
\* cleared and "Failed to connect to ESP32-Attendance" shown.
C17_ConnectOutcome ==
    /\ [](connectionState = "connecting" => connectPending > 0)
    /\ [][/\ (connectionState = "connecting" /\ ConnectResolved)
                => /\ connectionState' = "connected"
                   /\ device' = DEVICE_NAME
                   /\ toast' = "Connected to ESP32-Attendance"
          /\ (connectionState = "connecting" /\ ConnectRejected)
                => /\ connectionState' = "disconnected"
                   /\ device' = "null"
                   /\ ~scanActive'
                   /\ toast' = "Failed to connect to ESP32-Attendance"]_vars

C17_Witness ==
    /\ toast = "Failed to connect to ESP32-Attendance"
    /\ connectionState = "disconnected"
    /\ device = "null"
    /\ connectPending = 0
    /\ permissionPending = 0

\* C18: after every create attempt of a connected organizer the session is in
\* the organizer replica and in the displayed list, even when the
\* create-session write fails.
C18_OptimisticInsert ==
    [][\A value \in LecturerCreates :
          (lecturerConnected /\ createAttendanceSession(value))
             => /\ value.doc.sessionId \in DOMAIN AttendanceSessions'
                /\ \E i \in DOMAIN attendanceSessions' :
                      attendanceSessions'[i].sessionId = value.doc.sessionId]_vars

(***************************************************************************)
(* Claims about the organizer replica                                      *)
(***************************************************************************)
\* A fetch from the peripheral is part of this step.
FetchStep ==
    /\ lecturerConnected
    /\ linkUp
    /\ \/ retrieveAttendances
       \/ \E value \in LecturerCreates : createAttendanceSession(value)

\* C19: no step removes a header of AttendanceSessions or a row of
\* AttendanceRecords; and after a fetch, a session of the replica that the
\* fetched snapshot does not hold has its header and rows unchanged and is in
\* the displayed list with exactly those.
C19_MergeOnly ==
    [][/\ \A id \in DOMAIN AttendanceSessions : id \in DOMAIN AttendanceSessions'
       /\ AttendanceRecords \sqsubseteq AttendanceRecords'
       /\ FetchStep =>
            \A id \in DOMAIN AttendanceSessions
                        \ DOMAIN SnapshotAttendances(sessions', markedAttendances') :
               /\ AttendanceSessions'[id] = AttendanceSessions[id]
               /\ RowsOf(AttendanceRecords', id) = RowsOf(AttendanceRecords, id)
               /\ \E i \in DOMAIN attendanceSessions' :
                     attendanceSessions'[i] =
                        [sessionId  |-> id,
                         courseCode |-> AttendanceSessions[id].courseCode,
                         courseName |-> AttendanceSessions[id].courseName,
                         records    |-> RowsOf(AttendanceRecords, id)]]_vars

C19_Witness ==
    /\ freshFetch
    /\ DOMAIN sessions # {}
    /\ \E id \in DOMAIN AttendanceSessions \ DOMAIN sessions :
          /\ RowsOf(AttendanceRecords, id) # EmptyBag
          /\ \E i \in DOMAIN attendanceSessions :
                attendanceSessions[i].sessionId = id

(***************************************************************************)
(* Claims about the participant's mark                                     *)
(***************************************************************************)
\* C20: when the mark-attendance write of a connected participant rejects,
\* no row is written to StudentAttendances, markedSessions and
\* availableSessions are unchanged, and "Failed to mark attendance" is shown.
C20_MarkTransportError ==
    [][(/\ device # "null"
        /\ connectionState = "connected"
        /\ ~linkUp
        /\ \E i \in DOMAIN availableSessions, timestamp \in MarkTimes :
              markAttendance(availableSessions[i], timestamp))
         => /\ UNCHANGED <<StudentAttendances, markedSessions, availableSessions>>
            /\ UNCHANGED <<sessions, markedAttendances>>
            /\ toast' = "Failed to mark attendance"]_vars

C20_Witness ==
    /\ toast = "Failed to mark attendance"
    /\ connectionState = "connected"
    /\ ~linkUp
    /\ availableSessions # <<>>
    /\ markedSessions # <<>>

\* The peripheral holds a record of this participant for the session.
RecordedAtPeripheral(sessionId) ==
    \E i \in DOMAIN markedAttendances[sessionId] :
        markedAttendances[sessionId][i].matricNumber = MatricNumber

\* C21: whenever the mark-attendance write of a connected participant goes
\* through, the session is written to StudentAttendances with the mark's
\* timestamp, appended to markedSessions and removed from availableSessions,
\* and success is shown, whether or not the peripheral recorded the mark.
C21_AppliedDespiteDrop ==
    [][\A i \in DOMAIN availableSessions, timestamp \in MarkTimes :
          (/\ device # "null"
           /\ connectionState = "connected"
           /\ linkUp
           /\ markAttendance(availableSessions[i], timestamp))
            => LET session == availableSessions[i]
               IN /\ session.sessionId \in DOMAIN StudentAttendances'
                  /\ StudentAttendances'[session.sessionId].timestamp = timestamp
                  /\ markedSessions' =
                        Append(markedSessions, MarkedAttendanceOf(session, timestamp))
                  /\ session.sessionId \notin SessionIdsOf(availableSessions')
                  /\ toast' = "Attendance marked successfully"]_vars

\* The replica holds a session whose mark the peripheral has just dropped.
C21_Witness ==
    /\ toast = "Attendance marked successfully"
    /\ serial \in {"Attendance session has expired",
                   "No active attendance session found for this ID"}
    /\ \E id \in DOMAIN StudentAttendances :
          /\ id \in SessionIdsOf(markedSessions)
          /\ ~RecordedAtPeripheral(id)

\* C22: when the INSERT of the mark's row fails after the write went through,
\* the failure is what the user is shown, the session is still appended to
\* markedSessions and removed from availableSessions, and the replica is
\* left without the row.
C22_SaveFailureSurfaced ==
    [][\A i \in DOMAIN availableSessions, timestamp \in MarkTimes :
          (/\ availableSessions[i].sessionId \notin DOMAIN StudentAttendances
           /\ markAttendanceSaveFails(availableSessions[i], timestamp))
            => /\ toast' = "Failed to save student attendance"
               /\ availableSessions[i].sessionId \in SessionIdsOf(markedSessions')
               /\ availableSessions[i].sessionId \notin SessionIdsOf(availableSessions')
               /\ availableSessions[i].sessionId \notin DOMAIN StudentAttendances']_vars

\* C23: for every mark-attendance request the participant client sends and
\* the peripheral accepts, the record list-attendances returns for it carries
\* the participant's name, matric number and the timestamp as the client
\* supplied them.
C23_WireAgreement ==
    [][\A i \in DOMAIN availableSessions, timestamp \in MarkTimes :
          (/\ device # "null"
           /\ connectionState = "connected"
           /\ linkUp
           /\ MarkAccepted(sessions, StudentMarkValue(availableSessions[i], timestamp))
           /\ markAttendance(availableSessions[i], timestamp))
            => LET attendances ==
                      SnapshotAttendances(sessions', markedAttendances')
                          [availableSessions[i].sessionId].attendances
               IN /\ attendances # <<>>
                  /\ attendances[Len(attendances)] =
                        [name         |-> StudentName,
                         matricNumber |-> MatricNumber,
                         timestamp    |-> timestamp]]_vars

\* C25: at every moment at most one radio scan, at most one scan-timeout
\* timer and at most one connect attempt of the screen are alive.
C25_OneAttemptAtATime ==
    /\ staleTimers + (IF activeTimer THEN 1 ELSE 0) <= 1
    /\ connectPending <= 1
    /\ ~(scanActive /\ connectPending > 0)

\* C30: every attendance record the peripheral stores has a timestamp no
\* later than the expiry of its session.
C30_RecordWithinExpiry ==
    \A id \in DOMAIN sessions :
        \A i \in DOMAIN markedAttendances[id] :
            markedAttendances[id][i].timestamp <= sessions[id].expiryTimestamp

\* The sessions this organizer created.
OwnSessionIds == {value.doc.sessionId : value \in LecturerCreates}

\* C27: every header the replica holds under this organizer's email, and
\* every session in the organizer's displayed list, is a session this
\* organizer created.
C27_OrganizerOwnership ==
    /\ \A id \in DOMAIN AttendanceSessions :
          AttendanceSessions[id].lecturerEmail = LecturerEmail
             => id \in OwnSessionIds
    /\ \A i \in DOMAIN attendanceSessions :
          attendanceSessions[i].sessionId \in OwnSessionIds

\* C26: when the save of one fetched session fails at its k-th record
\* INSERT, the replica afterwards holds the header of that session with the
\* fetched course fields and, on top of the rows it had, exactly the first
\* k-1 records of the fetch; the k-th and later records are not written.
C26_PartialSave ==
    [][\A failing \in Ids, k \in 1..MaxMarks :
          retrieveAttendancesSaveFails(failing, k)
            => LET fetched == SnapshotAttendances(sessions, markedAttendances)[failing]
                   records == UpdatedRecords(fetched.attendances)
               IN /\ failing \in DOMAIN AttendanceSessions'
                  /\ AttendanceSessions'[failing].courseCode = fetched.courseCode
                  /\ AttendanceSessions'[failing].courseName = fetched.courseName
                  /\ RowsOf(AttendanceRecords', failing) =
                        RowsOf(AttendanceRecords, failing)
                           (+) RowsOf(InsertRecords(EmptyBag, failing,
                                          SubSeq(records, 1, k - 1)), failing)
                  /\ BagCardinality(RowsOf(AttendanceRecords', failing))
                        < BagCardinality(RowsOf(AttendanceRecords, failing))
                             + Len(records)]_vars

\* A save has just failed at the second of two fetched records.
C26_Witness ==
    /\ serial = "Retrieved attendances:"
    /\ toast = "Attendances retrieved successfully"
    /\ ~freshFetch
    /\ \E id \in DOMAIN AttendanceSessions :
          /\ id \in DOMAIN sessions
          /\ Len(markedAttendances[id]) = 2
          /\ BagCardinality(RowsOf(AttendanceRecords, id)) = 1

C28_IntegerTimestamps ==
    written.field \in {"timestamp", "expiryTimestamp"}
        => written.value.thousandths = 0

C31_ListsDisjoint ==
    SessionIdsOf(markedSessions) \cap SessionIdsOf(availableSessions) = {}

\* C32: a scan timeout fires only on the scan that armed it, so never while
\* connecting or connected and never as the timer of an earlier call; and
\* once the device was found or the scan failed, no timer is left armed.
C32_TimerActsOnOwnScan ==
    [][/\ ScanTimeout =>
            /\ connectionState = "scanning"
            /\ staleTimers' = staleTimers
       /\ (ScanFound \/ ScanError) =>
            /\ ~activeTimer'
            /\ staleTimers' = 0]_vars

\* C33: the student's markable list is empty whenever the connection state
\* is disconnected.
C33_EmptyWhenDisconnected ==
    (IsStudent /\ connectionState = "disconnected") => availableSessions = <<>>

\* C34: right after a connected fetch, each displayed session shows exactly
\* the records (as a multiset) the replica stores for that session.
C34_ViewMatchesReplica ==
    [][FetchStep =>
          \A i \in DOMAIN attendanceSessions' :
              attendanceSessions'[i].records =
                  RowsOf(AttendanceRecords', attendanceSessions'[i].sessionId)]_vars

\* C35: the createdAt stored in the replica for a session is set when the
\* session is first inserted and no later step changes it.
C35_CreatedAtStable ==
    [][\A id \in DOMAIN AttendanceSessions :
          /\ id \in DOMAIN AttendanceSessions'
          /\ AttendanceSessions'[id].createdAt = AttendanceSessions[id].createdAt]_vars

\* C36: a StudentAttendances row recorded for one account is neither removed
\* nor overwritten by a step made while another account is logged in, and the
\* first account's fetch of its marked sessions still contains the session.
C36_AccountIsolation ==
    [][\A id \in DOMAIN StudentAttendances :
          (email \in {StudentEmail, OtherStudentEmail}
              /\ StudentAttendances[id].studentEmail # email)
          => /\ id \in DOMAIN StudentAttendances'
             /\ StudentAttendances'[id] = StudentAttendances[id]
             /\ id \in SessionIdsOf(
                    fetchStudentAttendances(StudentAttendances',
                        StudentAttendances[id].studentEmail))]_vars

\* The client holds a device handle and its connection state is connected.
ClientConnected == device # "null" /\ connectionState = "connected"

\* C37: a create-session or mark-attendance invoked when the client is not
\* connected writes nothing to the peripheral, shows 'Device not connected'
\* and changes neither the replica nor an in-memory list.
C37_WritesOnlyWhileConnected ==
    [][~ClientConnected =>
          /\ (\E i \in DOMAIN availableSessions, timestamp \in MarkTimes :
                 markAttendance(availableSessions[i], timestamp))
             => /\ toast' = "Device not connected"
                /\ UNCHANGED <<periphVars, StudentAttendances, markedSessions,
                               availableSessions>>
          /\ (\E value \in LecturerCreates :
                 createAttendanceSession(value) /\ UNCHANGED studentVars)
             => /\ toast' = "Device not connected"
                /\ UNCHANGED <<periphVars, lecturerVars>>]_vars

\* A student who is disconnected, with a session still listed, tapped Mark
\* Attendance.
C37_Witness ==
    /\ IsStudent
    /\ connectionState = "disconnected"
    /\ device = "null"
    /\ availableSessions # <<>>
    /\ toast = "Device not connected"

\* The text is a whole number written in digits, white space before it
\* allowed.
IsIntegerText(text) ==
    /\ TrimStart(text) # <<>>
    /\ \A i \in DOMAIN TrimStart(text) : IsDigit(TrimStart(text)[i])

\* C38: a create-session request is sent only when the entered expiry is an
\* integer of at least 5 minutes, and then with expiryTimestamp = now +
\* minutes * 60; with any other text nothing is written to the peripheral and
\* no replica row is inserted.
C38_MinimumLifetime ==
    [][\A sessionId \in {"s1", "s2"}, expiryMinutes \in ExpiryTexts :
          (lecturerConnected
              /\ createAttendanceSessionTyped(sessionId, expiryMinutes))
          => IF IsIntegerText(expiryMinutes)
                /\ DecimalValue(TrimStart(expiryMinutes), 0) >= 5
             THEN written'.value =
                     Plus(now(dateNow),
                          DecimalValue(TrimStart(expiryMinutes), 0) * 60)
             ELSE UNCHANGED <<written, periphVars, AttendanceSessions,
                              AttendanceRecords>>]_vars

====
